---- MODULE Spec2Model ----
(***************************************************************************)
(* Model of the KakaoTalk channel crawler (crawler.py): the watermark      *)
(* file, one automatic run of main() split at its observable steps, and    *)
(* the image part of send_slack.                                           *)
(*                                                                         *)
(* Post ids are modelled by their numeric value int(p["id"]); the file     *)
(* last_post.txt is a sequence: <<>> when absent or empty, <<n>> when it   *)
(* holds the decimal numeral of n (str(n) on write, int() on read).        *)
(* WEBHOOK_URL is taken to be set (main() exits before any I/O otherwise). *)
(***************************************************************************)
EXTENDS Integers, Sequences, FiniteSets, TLC

MaxId == 3        \* post ids are 1..MaxId
MaxRuns == 2      \* number of main() runs in one behaviour
MaxImages == 3    \* longest image list handed to send_slack

Ids == 1..MaxId

VARIABLES
  feed,          \* ids of the posts the remote feed page shows
  file,          \* content of HISTORY_FILE
  pc,            \* position of main(): idle, listing, sending, detail, finished
  last_post_id,  \* main's local: value read by load_last_post
  posts,         \* main's local: list returned by crawl_latest_posts
  new_posts,     \* main's local: the batch
  i,             \* number of posts of the batch whose loop body finished
  detail,        \* result of crawl_post_detail; the arguments of send_slack
  outcome,       \* how the run ended
  runs,          \* number of runs started
  visited,       \* this run: ids handed to crawl_post_detail, in order
  sent,          \* this run: webhook POSTs made, in order, with their result
  writes,        \* this run: number of save_last_post calls
  rerun,         \* this run follows a completed run, feed and file unchanged
  attempts,      \* all runs: webhook POSTs made per id
  accepted,      \* all runs: webhook POSTs answered 200 per id
  aborted,       \* all runs: some run ended by an exception
  fresh,         \* the latest run completed and the feed has not changed since
  fetch,         \* outcome of download_image per position of the image list
  upload,        \* outcome of upload_image_to_host
  blocks,        \* Block Kit blocks built by send_slack
  netio,         \* image downloads and uploads send_slack performed
  spc            \* position of send_slack: off, input, built, raised

runVars == <<pc, last_post_id, posts, new_posts, i, detail, outcome, runs,
             visited, sent, writes, rerun>>
histVars == <<attempts, accepted, aborted, fresh>>
slackVars == <<fetch, upload, blocks, netio, spc>>
vars == <<feed, file, runVars, histVars, slackVars>>

----------------------------------------------------------------------------
(* Lists of posts, the watermark file, the selection of the batch *)

IdsOf(ps) == {ps[k].id : k \in 1..Len(ps)}

MaxOf(S) == CHOOSE m \in S : \A x \in S : x <= m

MinOf(S) == CHOOSE m \in S : \A x \in S : m <= x

Range(q) == {q[k] : k \in 1..Len(q)}

RECURSIVE SortDesc(_, _)
SortDesc(S, pins) ==
  IF S = {} THEN <<>>
  ELSE LET m == MaxOf(S)
       IN <<[id |-> m, is_pinned |-> m \in pins]>> \o SortDesc(S \ {m}, pins)

\* the deduplicated anchors, then posts.sort(key=int(id), reverse=True)
crawl_latest_posts(f, pins) == SortDesc(f, pins)

\* None (<<>>) when the file is absent or empty, else its content
load_last_post(f) == f

\* f.write(str(n))
save_last_post(n) == <<n>>

\* fault variant of get_latest_non_pinned_post: the pin marks are ignored
get_first_post(ps) == IF ps # <<>> THEN <<ps[1]>> ELSE <<>>

\* the first non-pinned post in list order, else posts[0], else None (<<>>)
get_latest_non_pinned_post(ps) ==
  LET K == {k \in 1..Len(ps) : ~ps[k].is_pinned}
  IN IF K # {} THEN <<ps[MinOf(K)]>>
     ELSE IF ps # <<>> THEN <<ps[1]>> ELSE <<>>

\* fault variant of filter_new: the watermark post counts as new
filter_new_geq(ps, last) == SelectSeq(ps, LAMBDA p : p.id >= last[1])

\* [p for p in posts if int(p["id"]) > int(last_post_id)]
filter_new(ps, last) == SelectSeq(ps, LAMBDA p : p.id > last[1])

\* new_posts.sort(key=lambda x: int(x["id"]))
sort_oldest_first(ps) == SortSeq(ps, LAMBDA a, b : a.id < b.id)

\* fault variant of latest_id: the smallest id is stored
latest_id_min(ps) == MinOf(IdsOf(ps))

\* max(int(p["id"]) for p in posts)
latest_id(ps) == MaxOf(IdsOf(ps))

\* fault variant of select_new_posts: every run is treated as a first run
select_ignoring_watermark(ps, last) == get_latest_non_pinned_post(ps)

\* main, lines 522-531: the batch before it is sorted
select_new_posts(ps, last) ==
  IF last # <<>> THEN filter_new(ps, last) ELSE get_latest_non_pinned_post(ps)

----------------------------------------------------------------------------
(* URLs, crawl_post_detail, and the image part of send_slack.  A URL is    *)
(* its scheme prefix, the rest (host), and a scheme-like substring that    *)
(* may occur later in it ("" when none does).                              *)

max_cols == 4
thumb_size == 150

NoUrl == [scheme |-> "", host |-> 0, embedded |-> ""]

\* what 0x0.st answers: response.text.strip()
HostedUrl == [scheme |-> "https://", host |-> 0, embedded |-> ""]

Url(k) ==
  [scheme |-> IF k % 2 = 1 THEN "http://" ELSE "https://",
   host |-> k,
   embedded |-> IF k <= 2 THEN "http://" ELSE ""]

FirstUrls(n) == [k \in 1..n |-> Url(k)]

\* if url.startswith("http://"): url = url.replace("http://", "https://")
\* str.replace rewrites every occurrence, not only the prefix
http_to_https(u) ==
  IF u.scheme = "http://"
  THEN [u EXCEPT !.scheme = "https://",
                 !.embedded = IF @ = "http://" THEN "https://" ELSE @]
  ELSE u

FetchOutcomes == {"ok", "fail", "corrupt"}
UploadOutcomes == {"ok", "fail"}

\* download_image: an Image on status 200 when Image.open accepts the bytes
\* ("ok", or "corrupt": a header PIL accepts over data it cannot decode),
\* None (<<>>) on any other status or exception
download_image(u, o) == IF o = "fail" THEN <<>> ELSE <<o>>

\* the images create_image_collage keeps, in order
downloaded(urls, fo) ==
  SelectSeq([k \in 1..Len(urls) |-> download_image(urls[k], fo[k])],
            LAMBDA im : im # <<>>)

\* img.convert / img.thumbnail decode the image outside any try block
collage_raises(urls, fo) ==
  \E k \in 1..Len(downloaded(urls, fo)) : downloaded(urls, fo)[k] = <<"corrupt">>

\* None (<<>>) when no image was downloaded, else the grid
create_image_collage(urls, fo) ==
  LET num_images == Len(downloaded(urls, fo))
      cols == IF num_images < max_cols THEN num_images ELSE max_cols
      rows == (num_images + cols - 1) \div cols
  IN IF num_images = 0 THEN <<>>
     ELSE <<[num_images |-> num_images, cols |-> cols, rows |-> rows,
             width |-> cols * thumb_size, height |-> rows * thumb_size]>>

\* the hosted URL on status 200, None (<<>>) on any other status or exception
upload_image_to_host(image, up) == IF up = "ok" THEN <<HostedUrl>> ELSE <<>>

Block(type, role, n, url, text) ==
  [type |-> type, role |-> role, n |-> n, url |-> url, text |-> text]

\* fault variant of image_blocks: every image is passed through, whatever the count
image_blocks_all_original(urls, fo, up) ==
  IF urls = <<>> THEN <<>>
  ELSE <<Block("divider", "", 0, NoUrl, "")>> \o
       [k \in 1..Len(urls) |->
          Block("image", "original", k, http_to_https(urls[k]), "")]

\* send_slack, lines 171-224: the blocks the image list adds
image_blocks(urls, fo, up) ==
  LET num_images == Len(urls)
      collage == create_image_collage(urls, fo)
      collage_url == upload_image_to_host(collage[1], up)
  IN IF urls = <<>> THEN <<>>
     ELSE <<Block("divider", "", 0, NoUrl, "")>> \o
          IF num_images <= 2
          THEN [k \in 1..num_images |->
                  Block("image", "original", k, http_to_https(urls[k]), "")]
          ELSE IF collage # <<>>
               THEN IF collage_url # <<>>
                    THEN <<Block("image", "collage", num_images, collage_url[1], "")>>
                    ELSE <<Block("section", "upload_failed", num_images, NoUrl, "")>>
               ELSE <<Block("section", "collage_failed", num_images, NoUrl, "")>>

\* the requests.get and the upload POST calls send_slack makes
image_netio(urls, fo, up) ==
  [gets |-> IF Len(urls) <= 2 THEN 0 ELSE Len(urls),
   uploads |-> IF Len(urls) > 2 /\ create_image_collage(urls, fo) # <<>>
               THEN 1 ELSE 0]

\* crawl_and_send_new_posts, line 480: detail.get("title") or post["title"]
title_for(d) == IF d.title # "" THEN d.title ELSE "post.title"

\* send_slack, lines 136-255: the whole blocks list
send_slack_blocks(d, fo, up) ==
  <<Block("header", "title", 0, NoUrl, title_for(d))>> \o
  (IF d.content # "" THEN <<Block("section", "content", 0, NoUrl, d.content)>>
   ELSE <<>>) \o
  (IF d.menu_names # <<>>
   THEN <<Block("divider", "", 0, NoUrl, ""),
          Block("section", "menu", Len(d.menu_names), NoUrl, "")>>
   ELSE <<>>) \o
  image_blocks(d.image_urls, fo, up) \o
  <<Block("divider", "", 0, NoUrl, ""),
    Block("actions", "button", 0, NoUrl, ""),
    Block("context", "channel", 0, NoUrl, "")>>

EmptyDetail == [title |-> "", content |-> "", menu_names |-> <<>>, image_urls |-> <<>>]

\* what the three page.evaluate queries find on a detail page with n images
PageWith(n) ==
  IF n = 0 THEN EmptyDetail
  ELSE [title |-> "t", content |-> "c", menu_names |-> <<"m">>,
        image_urls |-> FirstUrls(n)]

ExtractFailures == {"none", "post_data", "menu_names", "image_urls"}

\* crawl_post_detail, lines 277-394: the query named by fail raises inside
\* the try block, the fields assigned before it stay
crawl_post_detail(page, fail) ==
  [title |-> IF fail = "post_data" THEN "" ELSE page.title,
   content |-> IF fail = "post_data" THEN "" ELSE page.content,
   menu_names |-> IF fail \in {"post_data", "menu_names"} THEN <<>>
                  ELSE page.menu_names,
   image_urls |-> IF fail = "none" THEN page.image_urls ELSE <<>>]

----------------------------------------------------------------------------
(* The automatic run, main() *)

SlackOff ==
  /\ fetch = <<>>
  /\ upload = "ok"
  /\ blocks = <<>>
  /\ netio = [gets |-> 0, uploads |-> 0]
  /\ spc = "off"

NoRun ==
  /\ pc = "idle"
  /\ last_post_id = <<>>
  /\ posts = <<>>
  /\ new_posts = <<>>
  /\ i = 0
  /\ detail = EmptyDetail
  /\ outcome = "none"
  /\ visited = <<>>
  /\ sent = <<>>
  /\ writes = 0
  /\ rerun = FALSE

Init ==
  /\ feed \in SUBSET Ids
  /\ file \in {<<>>} \cup {<<w>> : w \in Ids}
  /\ NoRun
  /\ runs = 0
  /\ attempts = [p \in Ids |-> 0]
  /\ accepted = [p \in Ids |-> 0]
  /\ aborted = FALSE
  /\ fresh = FALSE
  /\ SlackOff

\* the remote channel gains or loses posts between two runs
FeedChange ==
  /\ pc = "idle"
  /\ runs < MaxRuns
  /\ \E f \in SUBSET Ids : f # feed /\ feed' = f
  /\ fresh' = FALSE
  /\ UNCHANGED <<file, runVars, attempts, accepted, aborted, slackVars>>

\* main, line 510
Main_Load ==
  /\ pc = "idle"
  /\ runs < MaxRuns
  /\ last_post_id' = load_last_post(file)
  /\ runs' = runs + 1
  /\ rerun' = fresh
  /\ pc' = "listing"
  /\ UNCHANGED <<feed, file, posts, new_posts, i, detail, outcome, visited,
                 sent, writes, histVars, slackVars>>

\* the exceptions that leave main
RunErrors == {"list_error", "detail_error", "collage_error", "webhook_error"}

\* the run ends: by return, or by an exception leaving main
Finish(how) ==
  /\ pc' = "finished"
  /\ outcome' = how
  /\ aborted' = (aborted \/ how \in RunErrors)
  /\ fresh' = (how \in {"no_posts", "no_new", "done"})

\* fault variant of CrawlLatestPostsRaises: the error is swallowed and the run
\* goes on with what was listed
CrawlLatestPostsContinues ==
  /\ pc = "listing"
  /\ \E pins \in SUBSET feed : posts' = crawl_latest_posts(feed, pins)
  /\ posts' # <<>>
  /\ new_posts' = sort_oldest_first(select_new_posts(posts', last_post_id))
  /\ new_posts' # <<>>
  /\ pc' = "sending"
  /\ outcome' = "list_error"
  /\ aborted' = TRUE
  /\ UNCHANGED <<feed, file, last_post_id, i, detail, runs, visited, sent,
                 writes, rerun, attempts, accepted, fresh, slackVars>>

\* main, line 514: page.goto, the queries or the browser raise in
\* crawl_latest_posts; nothing in main catches it
CrawlLatestPostsRaises ==
  /\ pc = "listing"
  /\ Finish("list_error")
  /\ UNCHANGED <<feed, file, last_post_id, posts, new_posts, i, detail, runs,
                 visited, sent, writes, rerun, attempts, accepted, slackVars>>

\* main, lines 514-540: the listing, the early returns, the batch
Main_List ==
  /\ pc = "listing"
  /\ \E pins \in SUBSET feed : posts' = crawl_latest_posts(feed, pins)
  /\ IF posts' = <<>>
     THEN Finish("no_posts") /\ UNCHANGED new_posts
     ELSE IF select_new_posts(posts', last_post_id) = <<>>
          THEN Finish("no_new") /\ UNCHANGED new_posts
          ELSE /\ new_posts' =
                    sort_oldest_first(select_new_posts(posts', last_post_id))
               /\ pc' = "sending"
               /\ UNCHANGED <<outcome, aborted, fresh>>
  /\ UNCHANGED <<feed, file, last_post_id, i, detail, runs, visited, sent,
                 writes, rerun, attempts, accepted, slackVars>>

\* crawl_post_detail, lines 274-275: page.goto or the settle wait raises,
\* outside the try block; nothing up to main catches it
CrawlPostDetailRaises ==
  /\ pc = "sending"
  /\ i < Len(new_posts)
  /\ visited' = Append(visited, new_posts[i + 1].id)
  /\ Finish("detail_error")
  /\ UNCHANGED <<feed, file, last_post_id, posts, new_posts, i, detail, runs,
                 sent, writes, rerun, attempts, accepted, slackVars>>

\* crawl_and_send_new_posts, line 470: the detail of the next post
CrawlPostDetail ==
  /\ pc = "sending"
  /\ i < Len(new_posts)
  /\ visited' = Append(visited, new_posts[i + 1].id)
  /\ \E n \in {0, MaxImages}, fail \in ExtractFailures :
       detail' = crawl_post_detail(PageWith(n), fail)
  /\ pc' = "detail"
  /\ UNCHANGED <<feed, file, last_post_id, posts, new_posts, i, outcome, runs,
                 sent, writes, rerun, histVars, slackVars>>

UniformFetch(n) == {[k \in 1..n |-> o] : o \in FetchOutcomes}

\* send_slack, line 194: create_image_collage raises before any POST
SendSlackCollageRaises ==
  /\ pc = "detail"
  /\ \E fo \in UniformFetch(Len(detail.image_urls)) :
       Len(detail.image_urls) > 2 /\ collage_raises(detail.image_urls, fo)
  /\ Finish("collage_error")
  /\ UNCHANGED <<feed, file, last_post_id, posts, new_posts, i, detail, runs,
                 visited, sent, writes, rerun, attempts, accepted, slackVars>>

Posted(status) ==
  LET p == new_posts[i + 1].id
  IN /\ sent' = Append(sent, [id |-> p, status |-> status])
     /\ attempts' = [attempts EXCEPT ![p] = @ + 1]
     /\ accepted' = [accepted EXCEPT ![p] = IF status = "ok" THEN @ + 1 ELSE @]

SlackBuilds ==
  \E fo \in UniformFetch(Len(detail.image_urls)) :
    ~(Len(detail.image_urls) > 2 /\ collage_raises(detail.image_urls, fo))

\* fault variant of SendSlackPosted: the watermark is written after each POST
SendSlackPostedAndSaved ==
  /\ pc = "detail"
  /\ SlackBuilds
  /\ \E status \in {"ok", "non200"} : Posted(status)
  /\ i' = i + 1
  /\ pc' = "sending"
  /\ file' = save_last_post(new_posts[i + 1].id)
  /\ writes' = writes + 1
  /\ UNCHANGED <<feed, last_post_id, posts, new_posts, detail, outcome,
                 runs, visited, rerun, aborted, fresh, slackVars>>

\* send_slack, lines 262-266: the POST answers; 200 or not, the loop goes on
SendSlackPosted ==
  /\ pc = "detail"
  /\ SlackBuilds
  /\ \E status \in {"ok", "non200"} : Posted(status)
  /\ i' = i + 1
  /\ pc' = "sending"
  /\ UNCHANGED <<feed, file, last_post_id, posts, new_posts, detail, outcome,
                 runs, visited, writes, rerun, aborted, fresh, slackVars>>

\* send_slack, line 262: requests.post raises (connection error, timeout);
\* nothing up to main catches it
SendSlackPostRaises ==
  /\ pc = "detail"
  /\ SlackBuilds
  /\ Posted("raised")
  /\ Finish("webhook_error")
  /\ UNCHANGED <<feed, file, last_post_id, posts, new_posts, i, detail, runs,
                 visited, writes, rerun, slackVars>>

\* main, lines 546-547, after the loop
Main_Save ==
  /\ pc = "sending"
  /\ i = Len(new_posts)
  /\ file' = save_last_post(latest_id(posts))
  /\ writes' = writes + 1
  /\ Finish("done")
  /\ UNCHANGED <<feed, last_post_id, posts, new_posts, i, detail, runs,
                 visited, sent, rerun, attempts, accepted, slackVars>>

\* the process ends; its locals are gone
Main_Exit ==
  /\ pc = "finished"
  /\ pc' = "idle"
  /\ last_post_id' = <<>>
  /\ posts' = <<>>
  /\ new_posts' = <<>>
  /\ i' = 0
  /\ detail' = EmptyDetail
  /\ outcome' = "none"
  /\ visited' = <<>>
  /\ sent' = <<>>
  /\ writes' = 0
  /\ rerun' = FALSE
  /\ UNCHANGED <<feed, file, runs, histVars, slackVars>>

Next ==
  \/ FeedChange
  \/ Main_Load
  \/ CrawlLatestPostsRaises
  \/ Main_List
  \/ CrawlPostDetailRaises
  \/ CrawlPostDetail
  \/ SendSlackCollageRaises
  \/ SendSlackPosted
  \/ SendSlackPostRaises
  \/ Main_Save
  \/ Main_Exit

Spec == Init /\ [][Next]_vars

----------------------------------------------------------------------------
(* send_slack on its own: every detail record, every outcome of the image  *)
(* downloads and of the upload                                             *)

RECURSIVE InjectiveSeqs(_, _)
InjectiveSeqs(S, n) ==
  IF n = 0 THEN {<<>>}
  ELSE {<<x>> \o t : x \in S, t \in InjectiveSeqs(S, n - 1)} \ 
       {q \in {<<x>> \o t : x \in S, t \in InjectiveSeqs(S, n - 1)} :
          \E a, b \in 1..Len(q) : a # b /\ q[a] = q[b]}

\* image_urls is deduplicated by the extraction query (lines 374-387)
ImageLists ==
  UNION {InjectiveSeqs({Url(k) : k \in 1..MaxImages}, n) : n \in 0..MaxImages}

InitSlack ==
  /\ feed = {}
  /\ file = <<>>
  /\ pc = "idle"
  /\ last_post_id = <<>>
  /\ posts = <<>>
  /\ new_posts = <<>>
  /\ i = 0
  /\ outcome = "none"
  /\ visited = <<>>
  /\ sent = <<>>
  /\ writes = 0
  /\ rerun = FALSE
  /\ runs = 0
  /\ attempts = [p \in Ids |-> 0]
  /\ accepted = [p \in Ids |-> 0]
  /\ aborted = FALSE
  /\ fresh = FALSE
  /\ detail \in [title : {"", "t"}, content : {"", "c"},
                 menu_names : {<<>>, <<"m">>}, image_urls : ImageLists]
  /\ fetch \in [1..Len(detail.image_urls) -> FetchOutcomes]
  /\ upload \in UploadOutcomes
  /\ blocks = <<>>
  /\ netio = [gets |-> 0, uploads |-> 0]
  /\ spc = "input"

\* send_slack up to the payload (line 260)
SendSlackBuilds ==
  /\ spc = "input"
  /\ ~(Len(detail.image_urls) > 2 /\ collage_raises(detail.image_urls, fetch))
  /\ blocks' = send_slack_blocks(detail, fetch, upload)
  /\ netio' = image_netio(detail.image_urls, fetch, upload)
  /\ spc' = "built"
  /\ UNCHANGED <<feed, file, runVars, histVars, fetch, upload>>

\* send_slack leaves by the exception create_image_collage raised
SendSlackRaises ==
  /\ spc = "input"
  /\ Len(detail.image_urls) > 2
  /\ collage_raises(detail.image_urls, fetch)
  /\ netio' = [gets |-> Len(detail.image_urls), uploads |-> 0]
  /\ spc' = "raised"
  /\ UNCHANGED <<feed, file, runVars, histVars, fetch, upload, blocks>>

NextSlack ==
  \/ SendSlackBuilds
  \/ SendSlackRaises

SpecSlack == InitSlack /\ [][NextSlack]_vars

----------------------------------------------------------------------------
(* Properties *)

InRun == pc \in {"sending", "detail", "finished"} /\ outcome # "list_error"

SentIds == {sent[k].id : k \in 1..Len(sent)}

Ascending(ps) == \A a, b \in 1..Len(ps) : a < b => ps[a].id < ps[b].id

\* the ids of the fetched list above the watermark the run loaded
AboveWatermark == {p \in IdsOf(posts) : p > last_post_id[1]}

\* C1, as stated: over runs that all ran to completion, every post listed
\* above the watermark the run loaded is received by the webhook (answered
\* 200) exactly once, also when a POST of the run was answered non-200.
C1_ReceivedExactlyOnce ==
  (~aborted /\ pc = "finished" /\ outcome # "list_error" /\ last_post_id # <<>>)
    => \A p \in AboveWatermark : accepted[p] = 1

\* C1, amended: over runs that all ran to completion, every post listed above
\* the watermark the run loaded has exactly one webhook POST made for it, no
\* post ever has two, a post is received (200) at most once and exactly when
\* its one POST was answered 200, and POSTs are made in ascending id order,
\* within a run and from one run to the next.
C1_PostedExactlyOnce ==
  ~aborted =>
    /\ \A p \in Ids : attempts[p] <= 1 /\ accepted[p] <= attempts[p]
    /\ (pc = "finished" /\ outcome # "list_error" /\ last_post_id # <<>>) =>
         \A p \in AboveWatermark :
           /\ attempts[p] = 1
           /\ accepted[p] = 1 <=> [id |-> p, status |-> "ok"] \in Range(sent)
    /\ Ascending(sent)
    /\ \A q \in Ids \ SentIds : attempts[q] > 0 => \A p \in SentIds : q < p

\* C1 witness: a completed backfill run of two posts after an earlier completed
\* run, one POST answered non-200
C1_Witness ==
  /\ ~aborted
  /\ runs = 2
  /\ pc = "finished"
  /\ outcome = "done"
  /\ last_post_id # <<>>
  /\ Len(sent) = 2
  /\ sent[1].status = "non200"
  /\ sent[2].status = "ok"

\* C2: once the watermark file holds a value, no step of any run lowers it
\* or empties it.
C2_WatermarkNeverDecreases ==
  [][file # <<>> => (file' # <<>> /\ file'[1] >= file[1])]_vars

\* C2 witness: a run overwrote a stored watermark while the fetched list
\* also held an older post
C2_Witness ==
  /\ pc = "finished"
  /\ outcome = "done"
  /\ last_post_id # <<>>
  /\ file[1] > last_post_id[1]
  /\ \E p \in IdsOf(posts) : p < last_post_id[1]

\* C3, as stated: in a run that loaded watermark W and fetched a list, the
\* posts processed are exactly the fetched posts with id > W, one at a time
\* in ascending id order, and when there is such a post the file holds
\* max(id of the fetched list) at the end of the run.
C3_BackfillSetOrderWatermark ==
  (pc = "finished" /\ outcome # "list_error" /\ last_post_id # <<>>) =>
    /\ Range(visited) = AboveWatermark
    /\ Len(visited) = Cardinality(AboveWatermark)
    /\ \A a, b \in 1..Len(visited) : a < b => visited[a] < visited[b]
    /\ AboveWatermark # {} => file = <<MaxOf(IdsOf(posts))>>

\* C3, the part every run satisfies: the batch is exactly the fetched posts
\* with id > W in strictly ascending order, extraction visits a prefix of it
\* in that order, and a run that returns has visited all of it and left
\* max(id of the fetched list) in the file.
C3_HoldsWhenRunReturns ==
  (InRun /\ last_post_id # <<>>) =>
    /\ IdsOf(new_posts) = AboveWatermark
    /\ Len(new_posts) = Cardinality(AboveWatermark)
    /\ Ascending(new_posts)
    /\ Len(visited) <= Len(new_posts)
    /\ \A k \in 1..Len(visited) : visited[k] = new_posts[k].id
    /\ SentIds \subseteq AboveWatermark
    /\ (pc = "finished" /\ AboveWatermark # {} /\ outcome \notin RunErrors) =>
         /\ outcome = "done"
         /\ Len(visited) = Len(new_posts)
         /\ file = <<MaxOf(IdsOf(posts))>>

\* a run that returned: W = 1, fetched ids {1, 2, 3}: processed 2 then 3,
\* watermark 3
C3_ReturnedRun ==
  /\ pc = "finished"
  /\ outcome = "done"
  /\ last_post_id = <<1>>
  /\ IdsOf(posts) = {1, 2, 3}
  /\ visited = <<2, 3>>
  /\ file = <<3>>

NonPinnedIds == {posts[k].id : k \in {j \in 1..Len(posts) : ~posts[j].is_pinned}}

\* C4: in a run with no stored watermark and a non-empty fetched list the
\* batch is one post, the non-pinned post of highest id when there is one and
\* else the post of highest id, and nothing else is extracted or POSTed.
C4_FirstRunSelectsOne ==
  (InRun /\ last_post_id = <<>> /\ posts # <<>>) =>
    /\ Len(new_posts) = 1
    /\ new_posts[1].id = IF NonPinnedIds # {} THEN MaxOf(NonPinnedIds)
                         ELSE MaxOf(IdsOf(posts))
    /\ \A k \in 1..Len(visited) : visited[k] = new_posts[1].id
    /\ SentIds \subseteq {new_posts[1].id}
    /\ Len(sent) <= 1

\* C4 witness: a first run delivered a non-pinned post while a pinned post of
\* higher id was listed
C4_Witness ==
  /\ pc = "finished"
  /\ outcome = "done"
  /\ last_post_id = <<>>
  /\ Len(sent) = 1
  /\ \E p \in IdsOf(posts) : p > sent[1].id
  /\ \E p \in IdsOf(posts) : p < sent[1].id

\* C5, as stated: when the webhook delivery of a post of the batch fails
\* (non-200 answer, or the HTTP call raising), every post of the batch still
\* gets its one POST, the failed post gets no second one, and the watermark
\* is written at the end of the run, covering the failed post.
C5_FailedDeliveryDoesNotStopBatch ==
  (pc = "finished" /\ outcome \notin {"list_error", "detail_error", "collage_error"}
     /\ \E k \in 1..Len(sent) : sent[k].status # "ok")
    => /\ Len(sent) = Len(new_posts)
       /\ \A k \in 1..Len(sent) : sent[k].id = new_posts[k].id
       /\ writes = 1
       /\ file # <<>>
       /\ \A k \in 1..Len(sent) : sent[k].id <= file[1]

\* C6: a run writes the watermark at most once; the write comes after a POST
\* was made for every post of the batch; and it stores the maximum id of the
\* whole fetched list, on a first run as on a backfill.
C6_SingleWriteAfterBatch ==
  [][(writes' # writes \/ file' # file) =>
       \/ (pc = "finished" /\ writes' = 0 /\ file' = file)
       \/ /\ writes = 0
          /\ writes' = 1
          /\ Len(sent) = Len(new_posts)
          /\ \A k \in 1..Len(new_posts) : sent[k].id = new_posts[k].id
          /\ file' = <<MaxOf(IdsOf(posts))>>]_vars

\* C6 witness: a first run wrote the id of a pinned post it did not deliver
C6_Witness ==
  /\ pc = "finished"
  /\ writes = 1
  /\ last_post_id = <<>>
  /\ Len(sent) = 1
  /\ file[1] > sent[1].id

\* C7: a run whose fetched list is empty, or whose loaded watermark is at
\* least every fetched id, extracts and POSTs nothing and does not write the
\* file; and so does a run that follows a completed run with the feed and the
\* file unchanged.
C7_NoChangeRunIsNoOp ==
  /\ (InRun /\ (\/ posts = <<>>
                \/ (last_post_id # <<>> /\ AboveWatermark = {})
                \/ rerun))
       => /\ pc = "finished"
          /\ outcome \in {"no_posts", "no_new"}
  /\ (\/ InRun /\ posts = <<>>
      \/ InRun /\ last_post_id # <<>> /\ AboveWatermark = {}
      \/ rerun)
       => /\ visited = <<>>
          /\ sent = <<>>
          /\ writes = 0
          /\ file = last_post_id

\* C7 witness: the second of two runs over the same non-empty feed, the first
\* of which delivered and wrote the watermark
C7_Witness ==
  /\ pc = "finished"
  /\ rerun
  /\ outcome = "no_new"
  /\ \E p \in Ids : attempts[p] > 0

\* C8, as stated: extracting a post's detail never raises; whatever fails
\* while the page is obtained or queried, the batch goes on to POST that post
\* and every later one.
C8_ExtractionNeverStopsBatch ==
  (pc = "finished" /\ visited # <<>>
     /\ outcome \notin {"list_error", "collage_error", "webhook_error"})
    => /\ Len(visited) = Len(new_posts)
       /\ Len(sent) = Len(new_posts)

\* C9: when the listing raises, the run ends there: nothing is extracted or
\* POSTed and the file keeps the value the run loaded.
C9_ListingErrorAborts ==
  outcome = "list_error" =>
    /\ pc = "finished"
    /\ visited = <<>>
    /\ sent = <<>>
    /\ writes = 0
    /\ file = last_post_id

\* C9 witness: the listing raised in a run whose watermark is below a post of
\* the feed
C9_Witness ==
  /\ outcome = "list_error"
  /\ file # <<>>
  /\ \E p \in feed : p > file[1]

ImageBlocks == SelectSeq(blocks, LAMBDA b : b.type = "image")

FallbackBlocks ==
  SelectSeq(blocks, LAMBDA b : b.role \in {"upload_failed", "collage_failed"})

\* same URL, but for http:// rewritten to https://
SchemeNormalized(u, v) ==
  /\ v.host = u.host
  /\ v.scheme = "https://"
  /\ u.scheme \in {"http://", "https://"}
  /\ \/ v.embedded = u.embedded
     \/ u.embedded = "http://" /\ v.embedded = "https://"

====
